---- MODULE Spec2Model ----
(***************************************************************************)
(* A model of log-analyzer (src/src/main.rs): main, process_file and       *)
(* process_line.  The input file is a sequence of bytes; the model splits  *)
(* it into lines the way BufRead::lines does, decodes each line with a     *)
(* parser for the JSON subset the inputs use, accumulates the per-type     *)
(* statistics and prints the sorted report.                                *)
(*                                                                         *)
(* Text is a sequence of one-character strings, so the byte length of a    *)
(* line is Len(line) (all characters used are one byte in UTF-8, except    *)
(* the byte 0xFF, which makes a line invalid UTF-8).                       *)
(***************************************************************************)
EXTENDS Integers, Sequences, FiniteSets, TLC

VARIABLES file_exists, file, pc, pos, n, result, err, rows, stdout, stderr, exit_code

vars == <<file_exists, file, pc, pos, n, result, err, rows, stdout, stderr, exit_code>>

\* ------------------------------------------------------------------------
\* Bounds of the model
\* ------------------------------------------------------------------------

\* Largest number of lines of an input file.
MaxLines == 3

\* Width in bits of the model's u64.  TLC's integers are 32 bits wide, so
\* the 64-bit counters of TypeData are scaled down; every operation on
\* them is taken modulo 2^U64_BITS exactly as the code's is modulo 2^64.
U64_BITS == 5

U64_MAX == 2 ^ U64_BITS - 1

\* ------------------------------------------------------------------------
\* Helpers on sequences and sets
\* ------------------------------------------------------------------------

Min(S) == CHOOSE x \in S : \A y \in S : x <= y

Range(s) == {s[i] : i \in DOMAIN s}

RECURSIVE Concat(_)
Concat(ss) == IF ss = <<>> THEN <<>> ELSE Head(ss) \o Concat(Tail(ss))

\* All orders in which the elements of S can be enumerated.
Perms(S) ==
  {f \in [1..Cardinality(S) -> S] : \A i, j \in 1..Cardinality(S) : f[i] = f[j] => i = j}

\* ------------------------------------------------------------------------
\* The input alphabet: the line texts and line terminators files are made of
\* ------------------------------------------------------------------------

QUOTE == "\""
LF == "\n"
CR == "\r"
BAD_BYTE == "0xFF"

K_TYPE == <<"t", "y", "p", "e">>

\* {"type":"a"}
TextA == <<"{", QUOTE>> \o K_TYPE \o <<QUOTE, ":", QUOTE, "a", QUOTE, "}">>
\* {"type":"b"}
TextB == <<"{", QUOTE>> \o K_TYPE \o <<QUOTE, ":", QUOTE, "b", QUOTE, "}">>
\* {"type":"ab"}
TextAB == <<"{", QUOTE>> \o K_TYPE \o <<QUOTE, ":", QUOTE, "a", "b", QUOTE, "}">>
\* {"x":1, "type":"a"}
TextXA == <<"{", QUOTE, "x", QUOTE, ":", "1", ",", " ", QUOTE>> \o K_TYPE
            \o <<QUOTE, ":", QUOTE, "a", QUOTE, "}">>
\* {"x":1}
TextNoType == <<"{", QUOTE, "x", QUOTE, ":", "1", "}">>
\* not json
TextNotJson == <<"n", "o", "t", " ", "j", "s", "o", "n">>
\* {"type":1}
TextNonStr == <<"{", QUOTE>> \o K_TYPE \o <<QUOTE, ":", "1", "}">>
\* ["b"]
TextSeqB == <<"[", QUOTE, "b", QUOTE, "]">>
\* the empty line
TextEmpty == <<>>
\* a line holding a byte that is not valid UTF-8
TextBadUtf8 == <<BAD_BYTE>>

ValidTexts == {TextA, TextB, TextAB, TextXA, TextSeqB}

InvalidTexts == {TextNoType, TextNotJson, TextNonStr, TextEmpty, TextBadUtf8}

\* A line of a file with its terminator.
Pieces ==
  {t \o <<LF>> : t \in ValidTexts \cup InvalidTexts} \cup {TextA \o <<CR, LF>>}

\* The files: up to MaxLines terminated lines; the terminator of the last
\* line may be missing.
Files ==
  LET terminated == UNION {{Concat(ps) : ps \in [1..k -> Pieces]} : k \in 0..MaxLines}
  IN  terminated \cup {SubSeq(f, 1, Len(f) - 1) : f \in terminated \ {<<>>}}

\* ------------------------------------------------------------------------
\* 4.1 Line source: BufReader::lines
\* ------------------------------------------------------------------------

\* The position after the line that starts behind position p: the bytes
\* up to and including the next LF, or up to the end of the file.
LineEnd(f, p) ==
  LET nls == {i \in (p + 1)..Len(f) : f[i] = LF}
  IN  IF nls = {} THEN Len(f) ELSE Min(nls)

\* StripTerminator that takes off the LF only.
StripTerminator_lf_only(buf) ==
  IF buf # <<>> /\ buf[Len(buf)] = LF THEN SubSeq(buf, 1, Len(buf) - 1) ELSE buf

\* The bytes of a line with the terminator taken off: a final LF, and a CR
\* right before that LF.
StripTerminator(buf) ==
  IF buf # <<>> /\ buf[Len(buf)] = LF
  THEN LET b1 == SubSeq(buf, 1, Len(buf) - 1)
       IN  IF b1 # <<>> /\ b1[Len(b1)] = CR THEN SubSeq(b1, 1, Len(b1) - 1) ELSE b1
  ELSE buf

\* The item the iterator yields for the line behind position p, an
\* io::Result<String>: an error if the bytes are not valid UTF-8.
ReadLine(f, p) ==
  LET buf == SubSeq(f, p + 1, LineEnd(f, p))
  IN  IF BAD_BYTE \in Range(buf)
      THEN [ok |-> FALSE, text |-> <<>>]
      ELSE [ok |-> TRUE, text |-> StripTerminator(buf)]

\* All items of file.lines(), in order.
RECURSIVE LinesFrom(_, _)
LinesFrom(f, p) ==
  IF p >= Len(f) THEN <<>> ELSE <<ReadLine(f, p)>> \o LinesFrom(f, LineEnd(f, p))

Lines(f) == LinesFrom(f, 0)

\* ------------------------------------------------------------------------
\* 4.2 Record decoder: serde_json::from_str::<JsonObject>
\* ------------------------------------------------------------------------

Whitespace == {" ", CR, LF, "\t"}

Digits == {"0", "1", "2", "3", "4", "5", "6", "7", "8", "9"}

ParseFail == [ok |-> FALSE, ty |-> <<>>]

\* The first position from i on that holds no whitespace (Len(s) + 1 if none).
SkipWs(s, i) ==
  LET black == {j \in i..Len(s) : s[j] \notin Whitespace}
  IN  IF black = {} THEN Len(s) + 1 ELSE Min(black)

\* A string literal whose opening quote is at i.
ParseStr(s, i) ==
  LET closing == {j \in (i + 1)..Len(s) : s[j] = QUOTE}
  IN  IF closing = {}
      THEN [ok |-> FALSE, kind |-> "string", val |-> <<>>, next |-> i]
      ELSE [ok |-> TRUE, kind |-> "string", val |-> SubSeq(s, i + 1, Min(closing) - 1),
            next |-> Min(closing) + 1]

\* A number whose first digit is at i.
ParseNum(s, i) ==
  LET stop == {j \in i..Len(s) : s[j] \notin Digits}
      e    == IF stop = {} THEN Len(s) + 1 ELSE Min(stop)
  IN  [ok |-> TRUE, kind |-> "number", val |-> SubSeq(s, i, e - 1), next |-> e]

\* A value that starts at or after i: a string or a number.
ParseValue(s, i) ==
  LET j == SkipWs(s, i)
  IN  IF j > Len(s) THEN [ok |-> FALSE, kind |-> "none", val |-> <<>>, next |-> j]
      ELSE IF s[j] = QUOTE THEN ParseStr(s, j)
      ELSE IF s[j] \in Digits THEN ParseNum(s, j)
      ELSE [ok |-> FALSE, kind |-> "none", val |-> <<>>, next |-> j]

\* Only whitespace may follow the document.
AtEnd(s, i) == SkipWs(s, i) > Len(s)

\* The members of an object, from position i on; first: no member was read
\* yet; has_ty, ty: the `type` field read so far.  The field `type` must be
\* a string and must not occur twice, other fields are ignored, and the
\* field must have occurred when the object ends.
RECURSIVE ParseMembers(_, _, _, _, _)
ParseMembers(s, i, first, has_ty, ty) ==
  LET j == SkipWs(s, i)
  IN  IF j > Len(s) THEN ParseFail
      ELSE IF s[j] = "}"
      THEN IF has_ty /\ AtEnd(s, j + 1) THEN [ok |-> TRUE, ty |-> ty] ELSE ParseFail
      ELSE IF ~first /\ s[j] # "," THEN ParseFail
      ELSE LET k == IF first THEN j ELSE SkipWs(s, j + 1)
           IN  IF k > Len(s) \/ s[k] # QUOTE THEN ParseFail
               ELSE LET key == ParseStr(s, k)
                        c   == SkipWs(s, key.next)
                    IN  IF ~key.ok \/ c > Len(s) \/ s[c] # ":" THEN ParseFail
                        ELSE LET v == ParseValue(s, c + 1)
                             IN  IF ~v.ok THEN ParseFail
                                 ELSE IF key.val = K_TYPE
                                 THEN IF has_ty \/ v.kind # "string" THEN ParseFail
                                      ELSE ParseMembers(s, v.next, FALSE, TRUE, v.val)
                                 ELSE ParseMembers(s, v.next, FALSE, has_ty, ty)

\* A JsonObject given as a sequence: its one element is the field `type`.
ParseSeq(s, i) ==
  LET v == ParseValue(s, i)
      c == SkipWs(s, v.next)
  IN  IF v.ok /\ v.kind = "string" /\ c <= Len(s) /\ s[c] = "]" /\ AtEnd(s, c + 1)
      THEN [ok |-> TRUE, ty |-> v.val]
      ELSE ParseFail

\* serde_json::from_str::<JsonObject>(line): the type label of the record.
FromStr(s) ==
  LET j == SkipWs(s, 1)
  IN  IF j > Len(s) THEN ParseFail
      ELSE IF s[j] = "{" THEN ParseMembers(s, j + 1, TRUE, FALSE, <<>>)
      ELSE IF s[j] = "[" THEN ParseSeq(s, j + 1)
      ELSE ParseFail

\* ------------------------------------------------------------------------
\* 4.3 Accumulation: process_line
\* ------------------------------------------------------------------------

\* HashMap::new(): the table without entries.
EmptyTable == <<>>

\* TypeData::default() with a count that starts at one.
DefaultTypeData_one == [num |-> 1, bytes |-> 0]

\* TypeData::default().
DefaultTypeData == [num |-> 0, bytes |-> 0]

\* stats.insert(ty, default) in place of entry(ty).or_default(): an entry
\* that exists is reset.
EntryOrDefault_insert(stats, ty) ==
  [x \in DOMAIN stats \cup {ty} |-> IF x = ty THEN [num |-> 0, bytes |-> 0] ELSE stats[x]]

\* stats.entry(ty).or_default(): the table with an entry for ty.
EntryOrDefault(stats, ty) ==
  IF ty \in DOMAIN stats THEN stats ELSE stats @@ (ty :> DefaultTypeData)

\* data.num += 1 on a u64.  The count of an entry is at most the number of
\* lines, and every line that decodes adds at least one byte to the bytes
\* of its entry, so the count cannot pass U64_MAX before checked_add fails:
\* the overflow of this addition is not reachable.
AddOne(x) == (x + 1) % (U64_MAX + 1)

\* u64::wrapping_add in place of checked_add.
checked_add_wrapping(a, b) == [some |-> TRUE, val |-> (a + b) % (U64_MAX + 1)]

\* u64::checked_add: None when the sum does not fit.
checked_add(a, b) ==
  IF a + b > U64_MAX THEN [some |-> FALSE, val |-> 0] ELSE [some |-> TRUE, val |-> a + b]

\* The length of the line with its LF.
LineLen_with_terminator(text) == Len(text) + 1

\* line.len() as u64.
LineLen(text) == Len(text)

\* process_line that takes a line that does not decode for a record with
\* the empty label (from_str(..).unwrap_or_default()).
process_line_lenient(stats, line) ==
  IF ~line.ok THEN [stats |-> stats, err |-> "read"]
  ELSE LET obj == FromStr(line.text)
           s1  == EntryOrDefault(stats, obj.ty)
           s2  == [s1 EXCEPT ![obj.ty].num = AddOne(@)]
           sum == checked_add(s2[obj.ty].bytes, LineLen(line.text))
       IN  IF sum.some
           THEN [stats |-> [s2 EXCEPT ![obj.ty].bytes = sum.val], err |-> "none"]
           ELSE [stats |-> s2, err |-> "overflow"]

\* process_line(stats, line): the table it leaves behind and its outcome.
process_line(stats, line) ==
  IF ~line.ok THEN [stats |-> stats, err |-> "read"]
  ELSE LET obj == FromStr(line.text)
       IN  IF ~obj.ok THEN [stats |-> stats, err |-> "parse"]
           ELSE LET s1  == EntryOrDefault(stats, obj.ty)
                    s2  == [s1 EXCEPT ![obj.ty].num = AddOne(@)]
                    sum == checked_add(s2[obj.ty].bytes, LineLen(line.text))
                IN  IF sum.some
                    THEN [stats |-> [s2 EXCEPT ![obj.ty].bytes = sum.val], err |-> "none"]
                    ELSE [stats |-> s2, err |-> "overflow"]

\* ------------------------------------------------------------------------
\* 4.5 Reporter: the sort of main
\* ------------------------------------------------------------------------

\* The byte value of a character of a label.
CharCode(c) ==
  CASE c = "a" -> 97
    [] c = "b" -> 98
    [] OTHER   -> 0

\* String's Ord: byte-wise lexicographic, a proper prefix is smaller.
RECURSIVE cmp(_, _)
cmp(l, r) ==
  IF l = <<>> /\ r = <<>> THEN "Equal"
  ELSE IF l = <<>> THEN "Less"
  ELSE IF r = <<>> THEN "Greater"
  ELSE IF CharCode(Head(l)) < CharCode(Head(r)) THEN "Less"
  ELSE IF CharCode(Head(l)) > CharCode(Head(r)) THEN "Greater"
  ELSE cmp(Tail(l), Tail(r))

\* A row put into a sorted vector behind the rows that are not greater.
RECURSIVE Insert(_, _)
Insert(row, v) ==
  IF v = <<>> THEN <<row>>
  ELSE IF cmp(row.ty, Head(v).ty) = "Less" THEN <<row>> \o v
  ELSE <<Head(v)>> \o Insert(row, Tail(v))

\* main without the sort: the rows stay in the order of the map.
sort_by_unsorted(v) == v

\* result.sort_by(|(l, _), (r, _)| l.cmp(r)): a stable sort by label.
RECURSIVE sort_by(_)
sort_by(v) ==
  IF v = <<>> THEN <<>> ELSE Insert(v[Len(v)], sort_by(SubSeq(v, 1, Len(v) - 1)))

\* result.into_iter().collect(), the entries met in the order `order`.
Collect(stats, order) ==
  [i \in 1..Len(order) |->
     [ty |-> order[i], num |-> stats[order[i]].num, bytes |-> stats[order[i]].bytes]]

\* ------------------------------------------------------------------------
\* The run: main and process_file
\* ------------------------------------------------------------------------

NoErr == [kind |-> "none", line |-> 0]

\* The index of enumerate() taken for the line number.
LineNumber_zero_based(i) == i

\* The line number of the item with index i of lines().enumerate().
LineNumber(i) == i + 1

\* process_file that goes on with the next line after an error.
AfterLine_continue(e) == "lines"

\* What process_file does after process_line: `?` returns the error.
AfterLine(e) == IF e = "none" THEN "lines" ELSE "return_err"

Init ==
  /\ file_exists \in BOOLEAN
  /\ file \in (IF file_exists THEN Files ELSE {<<>>})
  /\ pc = "main"
  /\ pos = 0
  /\ n = 0
  /\ result = EmptyTable
  /\ err = NoErr
  /\ rows = <<>>
  /\ stdout = <<>>
  /\ stderr = <<>>
  /\ exit_code = 0

\* main calls process_file, which makes the table.
CallProcessFile ==
  /\ pc = "main"
  /\ pc' = "open"
  /\ result' = EmptyTable
  /\ UNCHANGED <<file_exists, file, pos, n, err, rows, stdout, stderr, exit_code>>

\* File::open(file).context("Could not open the file")?
OpenFile ==
  /\ pc = "open"
  /\ IF file_exists
     THEN /\ pc' = "lines"
          /\ UNCHANGED err
     ELSE /\ pc' = "return_err"
          /\ err' = [kind |-> "open", line |-> 0]
  /\ UNCHANGED <<file_exists, file, pos, n, result, rows, stdout, stderr, exit_code>>

\* One turn of the loop of process_file: the next line goes to process_line.
NextLine ==
  /\ pc = "lines"
  /\ pos < Len(file)
  /\ LET r == process_line(result, ReadLine(file, pos))
     IN  /\ result' = r.stats
         /\ pos' = LineEnd(file, pos)
         /\ pc' = AfterLine(r.err)
         /\ IF r.err = "none"
            THEN /\ n' = n + 1
                 /\ UNCHANGED err
            ELSE /\ err' = [kind |-> r.err, line |-> LineNumber(n)]
                 /\ UNCHANGED n
  /\ UNCHANGED <<file_exists, file, rows, stdout, stderr, exit_code>>

\* The lines are used up: Ok(result).
ReturnOk ==
  /\ pc = "lines"
  /\ pos >= Len(file)
  /\ pc' = "sort"
  /\ UNCHANGED <<file_exists, file, pos, n, result, err, rows, stdout, stderr, exit_code>>

\* process_file returns the error; its table is dropped.
ReturnErr ==
  /\ pc = "return_err"
  /\ result' = EmptyTable
  /\ pc' = "main_err"
  /\ UNCHANGED <<file_exists, file, pos, n, err, rows, stdout, stderr, exit_code>>

\* main on Err: the message goes to standard error and the process exits.
MainErr ==
  /\ pc = "main_err"
  /\ stderr' = Append(stderr, err)
  /\ exit_code' = 1
  /\ pc' = "exited"
  /\ UNCHANGED <<file_exists, file, pos, n, result, err, rows, stdout>>

\* main on Ok: the entries are collected in the order the map iterates
\* in, which is any order, and sorted.
MainSort ==
  /\ pc = "sort"
  /\ \E order \in Perms(DOMAIN result) : rows' = sort_by(Collect(result, order))
  /\ result' = EmptyTable
  /\ pc' = "print"
  /\ UNCHANGED <<file_exists, file, pos, n, err, stdout, stderr, exit_code>>

\* One println! of the loop of main.
PrintRow ==
  /\ pc = "print"
  /\ rows # <<>>
  /\ stdout' = Append(stdout, Head(rows))
  /\ rows' = Tail(rows)
  /\ UNCHANGED <<file_exists, file, pc, pos, n, result, err, stderr, exit_code>>

\* main returns.
MainExit ==
  /\ pc = "print"
  /\ rows = <<>>
  /\ exit_code' = 0
  /\ pc' = "exited"
  /\ UNCHANGED <<file_exists, file, pos, n, result, err, rows, stdout, stderr>>

Next ==
  \/ CallProcessFile
  \/ OpenFile
  \/ NextLine
  \/ ReturnOk
  \/ ReturnErr
  \/ MainErr
  \/ MainSort
  \/ PrintRow
  \/ MainExit

Spec == Init /\ [][Next]_vars

TypeOK ==
  /\ pc \in {"main", "open", "lines", "return_err", "main_err", "sort", "print", "exited"}
  /\ pos \in 0..Len(file)
  /\ n \in 0..(MaxLines + 1)
  /\ exit_code \in {0, 1}
  /\ \A t \in DOMAIN result : result[t].num \in 0..U64_MAX /\ result[t].bytes \in 0..U64_MAX

\* ------------------------------------------------------------------------
\* What a file holds, stated without the run
\* ------------------------------------------------------------------------

RECURSIVE SumSet(_, _)
SumSet(g, S) ==
  IF S = {} THEN 0 ELSE LET x == CHOOSE y \in S : TRUE IN g[x] + SumSet(g, S \ {x})

\* The number of lines of f: every LF ends one, and bytes behind the last
\* LF are one more.
NumLines(f) ==
  Cardinality({i \in DOMAIN f : f[i] = LF})
    + (IF f # <<>> /\ f[Len(f)] # LF THEN 1 ELSE 0)

\* The bytes of f that are no line terminator (LF, or CR LF).
TotalLineBytes(f) ==
  Len(f) - Cardinality({i \in DOMAIN f : f[i] = LF})
         - Cardinality({i \in DOMAIN f : f[i] = CR /\ i < Len(f) /\ f[i + 1] = LF})

\* The lines of f as the decoder sees them: whether line k is readable and
\* decodes, its label and its length in bytes.
Decoded(f) ==
  LET ls == Lines(f)
  IN  [k \in DOMAIN ls |->
         LET o == IF ls[k].ok THEN FromStr(ls[k].text) ELSE ParseFail
         IN  [ok |-> o.ok, ty |-> o.ty, len |-> Len(ls[k].text)]]

LabelsIn(d) == {d[k].ty : k \in {j \in DOMAIN d : d[j].ok}}

\* The lines with label t among the first m lines, and their bytes.
LinesIn(d, t, m) == {k \in DOMAIN d : k <= m /\ d[k].ok /\ d[k].ty = t}

CountIn(d, t) == Cardinality(LinesIn(d, t, Len(d)))

BytesUpTo(d, t, m) == SumSet([k \in DOMAIN d |-> d[k].len], LinesIn(d, t, m))

BytesOfType(d, t) == BytesUpTo(d, t, Len(d))

\* Line k cannot be accumulated: it is unreadable, does not decode, or
\* takes the bytes of its type beyond the counter.
LineFailsIn(d, k) == ~d[k].ok \/ BytesUpTo(d, d[k].ty, k) > U64_MAX

\* The number of the first line that cannot be accumulated, 0 if none.
FirstFailingIn(d) ==
  LET bad == {k \in DOMAIN d : LineFailsIn(d, k)}
  IN  IF bad = {} THEN 0 ELSE Min(bad)

FirstFailing(f) == FirstFailingIn(Decoded(f))

\* l is before r in the byte-wise lexicographic order.
LexLess(l, r) ==
  \E k \in 1..(Len(r)) :
    /\ \A i \in 1..(k - 1) : i <= Len(l) /\ l[i] = r[i]
    /\ \/ k = Len(l) + 1
       \/ k <= Len(l) /\ CharCode(l[k]) < CharCode(r[k])

SumNum(t) == SumSet([x \in DOMAIN t |-> t[x].num], DOMAIN t)

SumBytes(t) == SumSet([x \in DOMAIN t |-> t[x].bytes], DOMAIN t)

\* ------------------------------------------------------------------------
\* Claims
\* ------------------------------------------------------------------------

\* C1: the table process_file returns holds as many counted entries as the
\* file has lines, and so does the report; an empty file gives an empty
\* table, an empty report and exit code 0.
C1_CountSum ==
  /\ pc = "sort" => SumNum(result) = NumLines(file)
  /\ pc = "sort" /\ file = <<>> => result = EmptyTable
  /\ pc = "exited" /\ exit_code = 0 =>
       SumSet([i \in DOMAIN stdout |-> stdout[i].num], DOMAIN stdout) = NumLines(file)
  /\ pc = "exited" /\ file_exists /\ file = <<>> => stdout = <<>> /\ exit_code = 0

C1_Witness ==
  /\ pc = "sort"
  /\ NumLines(file) >= 3
  /\ Cardinality(DOMAIN result) >= 2

\* C2: the bytes of the table process_file returns add up to the bytes of
\* the file that are not line terminators.
C2_BytesSum ==
  /\ pc = "sort" => SumBytes(result) = TotalLineBytes(file)
  /\ pc = "exited" /\ exit_code = 0 =>
       SumSet([i \in DOMAIN stdout |-> stdout[i].bytes], DOMAIN stdout) = TotalLineBytes(file)

C2_Witness ==
  /\ pc = "sort"
  /\ NumLines(file) >= 2
  /\ \E i \in DOMAIN file : file[i] = CR
  /\ file[Len(file)] = LF

\* The input of scenario A: {"type":"a"}, {"type":"b"}, {"type":"a"}, each
\* followed by LF.
ScenarioA == Concat(<<TextA, <<LF>>, TextB, <<LF>>, TextA, <<LF>>>>)

Row(t, c, b) == [ty |-> t, num |-> c, bytes |-> b]

\* C3 as stated: scenario A reports a with count 2 and 26 bytes, then b
\* with count 1 and 13 bytes.
C3_ScenarioA_AsStated ==
  file_exists /\ file = ScenarioA /\ pc = "exited" =>
    /\ exit_code = 0
    /\ stdout = <<Row(<<"a">>, 2, 26), Row(<<"b">>, 1, 13)>>

\* C3, amended: scenario A succeeds and reports a with count 2 and 24
\* bytes, then b with count 1 and 12 bytes (a line is 12 bytes long
\* without its terminator).
C3_ScenarioA ==
  file_exists /\ file = ScenarioA /\ pc = "exited" =>
    /\ exit_code = 0
    /\ stdout = <<Row(<<"a">>, 2, 24), Row(<<"b">>, 1, 12)>>

C3_Witness ==
  /\ file_exists
  /\ file = ScenarioA
  /\ pc = "exited"
  /\ Len(stdout) = 2

\* The growth of the entries of table t1 over those of t0 (an entry that is
\* absent counts as zero).
NumIn(t, x) == IF x \in DOMAIN t THEN t[x].num ELSE 0

BytesIn(t, x) == IF x \in DOMAIN t THEN t[x].bytes ELSE 0

\* C4: output is all-or-nothing.  A run that cannot open the file or meets
\* a failing line ends with exit code 1 and nothing on standard output,
\* and only such a run does; once an error is raised no further line is
\* read or accumulated; rows are printed only when every line of the file
\* was accumulated.
C4_AllOrNothing ==
  /\ [](err # NoErr => stdout = <<>> /\ rows = <<>> /\ pc \in {"return_err", "main_err", "exited"})
  /\ [](pc = "exited" =>
          /\ (exit_code = 1) = (~file_exists \/ FirstFailing(file) # 0)
          /\ (exit_code = 1) = (err # NoErr)
          /\ exit_code = 1 => stdout = <<>> /\ result = EmptyTable)
  /\ [](stdout # <<>> \/ rows # <<>> =>
          file_exists /\ pos = Len(file) /\ n = NumLines(file) /\ FirstFailing(file) = 0)
  /\ [][err # NoErr =>
          /\ pos' = pos
          /\ n' = n
          /\ err' = err
          /\ \A x \in DOMAIN result' : NumIn(result', x) <= NumIn(result, x)]_vars

C4_Witness ==
  /\ pc = "exited"
  /\ exit_code = 1
  /\ err.kind = "parse"
  /\ err.line = 2
  /\ pos < Len(file)

\* C5: the line number of an error raised for a line is the number of the
\* first line of the file that cannot be accumulated, which is the last
\* line read.
C5_FirstFailingLine ==
  err.kind \in {"read", "parse", "overflow"} =>
    LET d == Decoded(file)
    IN  /\ err.line = FirstFailingIn(d)
        /\ err.line = NumLines(SubSeq(file, 1, pos))
        /\ err.line = n + 1
        /\ \A k \in 1..(err.line - 1) : ~LineFailsIn(d, k)
        /\ LineFailsIn(d, err.line)

C5_Witness ==
  /\ err.kind \in {"read", "parse", "overflow"}
  /\ err.line = 3
  /\ pc = "exited"

\* C6: a successful run prints one row for every label of the file, in
\* strictly ascending order of the labels, each with the count and the
\* bytes of that label in the file, whatever order the map iterates in.
C6_SortedReport ==
  pc = "exited" /\ exit_code = 0 =>
    LET d == Decoded(file)
    IN  /\ {stdout[i].ty : i \in DOMAIN stdout} = LabelsIn(d)
        /\ Len(stdout) = Cardinality(LabelsIn(d))
        /\ \A i, j \in DOMAIN stdout : i < j => LexLess(stdout[i].ty, stdout[j].ty)
        /\ \A i \in DOMAIN stdout :
             /\ stdout[i].num = CountIn(d, stdout[i].ty)
             /\ stdout[i].bytes = BytesOfType(d, stdout[i].ty)

C6_Witness ==
  /\ pc = "exited"
  /\ exit_code = 0
  /\ Len(stdout) = 3

\* process_file on the items of lines(): process_line on each in turn, up
\* to the first error.
RECURSIVE RunLines(_, _)
RunLines(stats, ls) ==
  IF ls = <<>> THEN [stats |-> stats, err |-> "none"]
  ELSE LET r == process_line(stats, Head(ls))
       IN  IF r.err # "none" THEN r ELSE RunLines(r.stats, Tail(ls))

Permuted(ls, p) == [i \in DOMAIN ls |-> ls[p[i]]]

\* C7: the table returned for a file is the table every reordering of its
\* lines gives.
C7_OrderIndependent ==
  pc = "sort" =>
    \A p \in Perms(DOMAIN Lines(file)) :
      LET r == RunLines(EmptyTable, Permuted(Lines(file), p))
      IN  r.err = "none" /\ r.stats = result

C7_Witness ==
  /\ pc = "sort"
  /\ NumLines(file) = 3
  /\ \E x \in DOMAIN result : result[x].num = 2 /\ result[x].bytes = Len(TextA) + Len(TextXA)

\* The next line and its label in a state where process_file is about to
\* read one.
CurLine == ReadLine(file, pos)

CurOk == CurLine.ok /\ FromStr(CurLine.text).ok

CurTy == FromStr(CurLine.text).ty

AtLine == pc = "lines" /\ pos < Len(file)

\* C8: the bytes of an entry never wrap.  Accumulating a line of length L
\* into an entry with B bytes fails with an overflow error carrying the
\* number of the line when B + L is beyond the largest value of the
\* counter, and makes the bytes B + L otherwise; a table that is returned
\* and a row that is printed hold the true sum of the line lengths.
C8_NoWrap ==
  /\ [][AtLine /\ CurOk =>
          IF BytesIn(result, CurTy) + Len(CurLine.text) > U64_MAX
          THEN /\ err' = [kind |-> "overflow", line |-> NumLines(SubSeq(file, 1, pos)) + 1]
               /\ pc' = "return_err"
          ELSE /\ err' = NoErr
               /\ CurTy \in DOMAIN result'
               /\ result'[CurTy].bytes = BytesIn(result, CurTy) + Len(CurLine.text)]_vars
  /\ [](pc = "sort" =>
          \A x \in DOMAIN result : result[x].bytes = BytesOfType(Decoded(file), x))
  /\ [](pc \in {"print", "exited"} =>
          \A i \in DOMAIN stdout : stdout[i].bytes = BytesOfType(Decoded(file), stdout[i].ty))

C8_Witness ==
  /\ err.kind = "overflow"
  /\ pc = "exited"
  /\ exit_code = 1

C10_Frame ==
  [][AtLine =>
       IF CurOk
       THEN \A x \in (DOMAIN result \cup DOMAIN result') \ {CurTy} :
              x \in DOMAIN result /\ x \in DOMAIN result' /\ result'[x] = result[x]
       ELSE result' = result]_vars

C10_Witness ==
  /\ pc = "return_err"
  /\ err.kind \in {"read", "parse"}
  /\ Cardinality(DOMAIN result) >= 2

====
